---------------------------- MODULE Spec2Model ----------------------------
(***************************************************************************)
(* A model of v20_scanner.py: the V20Scanner class (pattern detection     *)
(* over a price history, alert classification against the current price,  *)
(* the scan loop over the watch-list and the single report transmission)  *)
(* and the __main__ block that checks the credentials and runs one scan.  *)
(*                                                                         *)
(* Prices are exact decimals counted in thousandths of a rupee (mills),   *)
(* so that round(x, 2) is a real operation: it rounds to a multiple of    *)
(* ten mills.  Percentages are compared by cross-multiplication, which is *)
(* what the float expressions of the source compute up to the last bit.   *)
(* An optional value (None or a number) is the empty or the one-element   *)
(* sequence.                                                              *)
(***************************************************************************)
EXTENDS Integers, Sequences, FiniteSets, TLC

VARIABLES
    pc,         \* position of the control flow (see the actions)
    env,        \* os.environ: EMAIL_FROM and EMAIL_PASSWORD
    exitcode,   \* the exit status of the process, once it has exited
    invocation, \* number of run_scan invocations started on the scanner
    stocks,     \* the dict returned by read_stocks_from_excel, in items() order
    k,          \* 1-based position of the scan loop in the flattened watch-list
    alerts,     \* self.alerts
    sent,       \* history: the transmissions attempted by send_email
    reads,      \* history: number of times the watch-list file was read
    fetches,    \* history: number of price-data requests (Ticker.history calls)
    log,        \* history: the symbols analysed in this invocation, with outcome
    prevAlerts, \* history: self.alerts when the last analysed symbol was started
    df,         \* find_20_percent_patterns: the frame being scanned
    i,          \* find_20_percent_patterns: the cursor of the outer loop
    patterns,   \* find_20_percent_patterns: the patterns found so far
    iters,      \* history: iterations of the outer loop done on df
    examined,   \* history: the runs the inner loop has walked, <<start, count>>
    last        \* history: the arguments of the last check_alerts call

vars == <<pc, env, exitcode, invocation, stocks, k, alerts, sent, reads, fetches,
          log, prevAlerts, df, i, patterns, iters, examined, last>>

----------------------------------------------------------------------------
(* Bounds of the model *)

MaxLen == 3

MaxRuns == 2

(* Program constants *)

GainThreshold == 20

ActivatedBand == 1

NearBand == 5

SmaWindow == 200

Percent == 100

INF == 999999999

----------------------------------------------------------------------------
(* Values *)

None == <<>>

Some(v) == <<v>>

Val(o) == o[1]

Max(a, b) == IF a >= b THEN a ELSE b

Abs(a) == IF a >= 0 THEN a ELSE 0 - a

\* round(x, 2) on a non-negative price in mills: to the nearest multiple of ten
\* mills, an exact tie going to the even hundredth.
Round2(x) ==
    LET q == x \div 10
        r == x % 10
    IN  IF r < 5 THEN 10 * q
        ELSE IF r > 5 THEN 10 * (q + 1)
        ELSE IF q % 2 = 0 THEN 10 * q ELSE 10 * (q + 1)

\* round(a / b * 100, 2) for a >= 0 and b > 0, in hundredths of a percent.
RoundPercent(a, b) ==
    LET n == a * Percent * 100
        q == n \div b
        r == n % b
    IN  IF 2 * r < b THEN q
        ELSE IF 2 * r > b THEN q + 1
        ELSE IF q % 2 = 0 THEN q ELSE q + 1

\* The bars a provider frame is made of: Open and Close in mills.
BarValues ==
    { [Open |-> 100000, Close |-> 110000],
      [Open |-> 111000, Close |-> 125000],
      [Open |-> 124000, Close |-> 118000],
      [Open |-> 100000, Close |-> 120000],
      [Open |-> 100004, Close |-> 120004],
      [Open |-> 100000, Close |-> 100000],
      [Open |-> 0,      Close |-> 50000] }

SeqsUpTo(S, n) == UNION { [1..m -> S] : m \in 0..n }

\* A frame returned by Ticker.history: the rows in ascending date order (row r has
\* the trading-day ordinal r as its index), and the type of its numbers, which
\* decides what a division by zero does: float64 gives inf, a Python number raises.
Frames ==
    { [bars |-> b, dtype |-> t] :
        b \in SeqsUpTo(BarValues, MaxLen) \ {<<>>}, t \in {"float64", "object"} }

NoFrame == [bars |-> <<>>, dtype |-> "float64"]

Len0(f) == Len(f.bars)

\* df.iloc[n] for a 0-based n
Row(f, n) == f.bars[n + 1]

Green(f, n) == Row(f, n).Close > Row(f, n).Open

\* df.index[n].strftime('%Y-%m-%d'): dates are compared through the trading-day
\* ordinal of the row, which the ISO format keeps (injective, order-preserving).
StartDate(f, n) == n + 1

----------------------------------------------------------------------------
(* find_20_percent_patterns *)

\* The inner while loop (lines 68-71), from j with the running maximum and count.
RECURSIVE InnerLoop(_, _, _, _)
InnerLoop(f, j, high, green) ==
    IF j < Len0(f) /\ Green(f, j)
    THEN InnerLoop(f, j + 1, Max(high, Row(f, j).Close), green + 1)
    ELSE [j |-> j, current_high |-> high, consecutive_green |-> green]

\* gain_percent >= 20 (lines 74-76), for start_price > 0, or for the inf that a
\* float64 division by zero gives (the numerator is positive on a green run).
QualifiesStrict(start_price, current_high) ==
    (current_high - start_price) * Percent > GainThreshold * start_price

Qualifies(start_price, current_high) ==
    (current_high - start_price) * Percent >= GainThreshold * start_price

\* The dict appended at lines 77-83.
Pattern(f, start_idx, start_price, current_high, green) ==
    [ start_date   |-> StartDate(f, start_idx),
      start_price  |-> Round2(start_price),
      end_price    |-> Round2(current_high),
      gain_percent |-> IF start_price = 0 THEN INF
                       ELSE RoundPercent(current_high - start_price, start_price),
      candles      |-> green ]

\* Line 85
AdvanceByOne(ii, j) == ii + 1

AdvanceToRunEnd(ii, j) == j

Advance(ii, j) == IF j > ii THEN j ELSE ii + 1

\* Line 74 raises ZeroDivisionError: a Python number divided by a zero open.
Raises(f, ii) ==
    LET run == InnerLoop(f, ii, Row(f, ii).Close, 0)
    IN  /\ run.consecutive_green > 0
        /\ Row(f, ii).Open = 0
        /\ f.dtype = "object"

\* One iteration of the outer loop (lines 61-85) that does not raise: the
\* patterns after it, the next cursor and the run it walked.
OuterIteration(f, ii, pats) ==
    LET start_price == Row(f, ii).Open
        run         == InnerLoop(f, ii, Row(f, ii).Close, 0)
        emit        == /\ run.consecutive_green > 0
                       /\ Qualifies(start_price, run.current_high)
    IN  [ patterns |-> IF emit
                       THEN Append(pats, Pattern(f, ii, start_price, run.current_high,
                                                 run.consecutive_green))
                       ELSE pats,
          i        |-> Advance(ii, run.j),
          run      |-> <<ii, run.consecutive_green>> ]

----------------------------------------------------------------------------
(* get_current_price_and_sma *)

\* What stock.history(period='220d') gives: an exception, an empty frame, or a
\* frame of `rows` rows whose last close is Close and whose rolling 200-row
\* mean of the closes at the last row is mean (used only when rows >= 200).
RecentError == [kind |-> "error", rows |-> 0, Close |-> 0, mean |-> 0]

RecentEmpty == [kind |-> "empty", rows |-> 0, Close |-> 0, mean |-> 0]

Recent(n, c, m) == [kind |-> "frame", rows |-> n, Close |-> c, mean |-> m]

get_current_price_and_sma(r) ==
    IF r.kind # "frame"
    THEN [current_price |-> None, sma_200 |-> None]
    ELSE LET sma == IF r.rows >= SmaWindow THEN Some(r.mean) ELSE None
         IN  [ current_price |-> Some(Round2(r.Close)),
               sma_200       |-> IF sma # None /\ Val(sma) # 0
                                 THEN Some(Round2(Val(sma))) ELSE None ]

----------------------------------------------------------------------------
(* check_alerts *)

\* difference_percent <= band (lines 120, 122, 131). A pattern whose start_price
\* is 0 comes from a float64 frame, so the division gives inf and no band holds.
WithinBand(current_price, start_price, band) ==
    /\ start_price # 0
    /\ Abs(current_price - start_price) * Percent <= band * start_price

\* Line 114
TrendFilteredAll(group) == TRUE

TrendFiltered(group) == group = "v200"

\* Line 115
TrendBlockedStrict(current_price, sma_200) ==
    sma_200 = None \/ current_price > Val(sma_200)

TrendBlocked(current_price, sma_200) ==
    sma_200 = None \/ current_price >= Val(sma_200)

\* The message appended at lines 123-129 or 132-139, by its parts.
Alert(kind, symbol, group, p, current_price, sma_200) ==
    [ kind          |-> kind,
      symbol        |-> symbol,
      group         |-> group,
      current_price |-> current_price,
      start_price   |-> p.start_price,
      start_date    |-> p.start_date,
      difference    |-> IF kind = "NEAR"
                        THEN Some(RoundPercent(Abs(current_price - p.start_price),
                                               p.start_price))
                        ELSE None,
      gain_percent  |-> p.gain_percent,
      sma_200       |-> IF group = "v200" THEN sma_200 ELSE None ]

\* The body of the for loop (lines 119-139) for one pattern: what it appends.
NearFromAbove(symbol, group, p, current_price, sma_200) ==
    IF WithinBand(current_price, p.start_price, ActivatedBand)
    THEN <<Alert("ACTIVATED", symbol, group, p, current_price, sma_200)>>
    ELSE IF WithinBand(current_price, p.start_price, NearBand)
    THEN <<Alert("NEAR", symbol, group, p, current_price, sma_200)>>
    ELSE <<>>

ForPattern(symbol, group, p, current_price, sma_200) ==
    IF WithinBand(current_price, p.start_price, ActivatedBand)
    THEN <<Alert("ACTIVATED", symbol, group, p, current_price, sma_200)>>
    ELSE IF /\ WithinBand(current_price, p.start_price, NearBand)
            /\ current_price < p.start_price
    THEN <<Alert("NEAR", symbol, group, p, current_price, sma_200)>>
    ELSE <<>>

RECURSIVE ForPatterns(_, _, _, _, _)
ForPatterns(symbol, group, pats, current_price, sma_200) ==
    IF pats = <<>> THEN <<>>
    ELSE ForPattern(symbol, group, Head(pats), current_price, sma_200)
         \o ForPatterns(symbol, group, Tail(pats), current_price, sma_200)

\* check_alerts: the alerts it appends to self.alerts.
check_alerts(symbol, group, pats, current_price, sma_200) ==
    IF pats = <<>> \/ current_price = None THEN <<>>
    ELSE IF TrendFiltered(group) /\ TrendBlocked(Val(current_price), sma_200) THEN <<>>
    ELSE ForPatterns(symbol, group, pats, Val(current_price), sma_200)

----------------------------------------------------------------------------
(* The watch-list and the provider's data *)

Groups == {"v40", "v40next", "v200"}

\* The dicts read_stocks_from_excel can return, as sequences in items() order
\* (the sheets are visited in the order v40, v40next, v200): {} when the file
\* cannot be read or has none of the sheets.
WatchLists ==
    { <<>>,
      << [group |-> "v40", symbols |-> <<>>], [group |-> "v200", symbols |-> <<>>] >>,
      << [group |-> "v40", symbols |-> <<"A">>],
         [group |-> "v40next", symbols |-> <<>>],
         [group |-> "v200", symbols |-> <<"B">>] >>,
      << [group |-> "v200", symbols |-> <<"A", "B">>] >> }

\* Line 204
NoStocks(w) == w = <<>> \/ \A n \in 1..Len(w) : Len(w[n].symbols) = 0

GroupItems(g) == [n \in 1..Len(g.symbols) |-> [group |-> g.group, symbol |-> g.symbols[n]]]

\* The (group, symbol) pairs in the order the nested for loops visit them
\* (lines 214 and 219).
RECURSIVE Work(_)
Work(w) == IF w = <<>> THEN <<>> ELSE GroupItems(Head(w)) \o Work(Tail(w))

\* What stock.history gives for the year of history: an exception, an empty
\* frame, or a frame.
HistoryError == [kind |-> "error", frame |-> NoFrame]

HistoryEmpty == [kind |-> "empty", frame |-> NoFrame]

HistoryOf(f) == [kind |-> "frame", frame |-> f]

\* The histories the provider serves during a whole scan: the rally of 25% in two
\* candles, a frame without a green bar, and a frame with a zero open.
ScanHistories ==
    { HistoryError, HistoryEmpty,
      HistoryOf([bars |-> << [Open |-> 100000, Close |-> 110000],
                             [Open |-> 111000, Close |-> 125000],
                             [Open |-> 124000, Close |-> 118000] >>,
                 dtype |-> "float64"]),
      HistoryOf([bars |-> << [Open |-> 124000, Close |-> 118000],
                             [Open |-> 100000, Close |-> 100000] >>,
                 dtype |-> "float64"]),
      HistoryOf([bars |-> << [Open |-> 0, Close |-> 50000],
                             [Open |-> 100000, Close |-> 120000] >>,
                 dtype |-> "object"]) }

\* The recent data the provider serves during a whole scan.
ScanRecents ==
    { RecentError, RecentEmpty,
      Recent(220, 100000, 110000),
      Recent(220, 96000, 96000),
      Recent(150, 94000, 0) }

\* The recent data one symbol is classified against: last closes at, around and
\* away from a start price of 100.00, with too few rows for the average, or an
\* average above, at or below the price.
Recents ==
    { RecentError, RecentEmpty }
    \cup { Recent(n, c, m) :
             n \in {150, 220},
             c \in {100000, 99000, 98996, 101000, 104000, 96000, 95000, 94000},
             m \in {96000, 99004, 110000} }

----------------------------------------------------------------------------
(* __main__ *)

Truthy(o) == o # None /\ Val(o) # ""

\* Line 298
CredentialsMissingBoth(e) == ~Truthy(e.EMAIL_FROM) /\ ~Truthy(e.EMAIL_PASSWORD)

CredentialsMissing(e) == ~Truthy(e.EMAIL_FROM) \/ ~Truthy(e.EMAIL_PASSWORD)

NoCall ==
    [called |-> FALSE, symbol |-> "", group |-> "", patterns |-> <<>>,
     current_price |-> None, sma_200 |-> None]

\* Lines 289-306: the credentials are checked, then the scanner is constructed.
CheckCredentials ==
    /\ pc = "main"
    /\ IF CredentialsMissing(env)
       THEN pc' = "exited" /\ exitcode' = Some(1)
       ELSE pc' = "ready" /\ exitcode' = exitcode
    /\ alerts' = <<>>
    /\ UNCHANGED <<env, invocation, stocks, k, sent, reads, fetches, log, prevAlerts,
                   df, i, patterns, iters, examined, last>>

\* Lines 311-313: run_scan has returned and the script ends.
ScriptEnd ==
    /\ pc \in {"completed", "no_stocks"}
    /\ pc' = "exited"
    /\ exitcode' = Some(0)
    /\ UNCHANGED <<env, invocation, stocks, k, alerts, sent, reads, fetches, log,
                   prevAlerts, df, i, patterns, iters, examined, last>>

----------------------------------------------------------------------------
(* run_scan *)

\* Lines 178-212: run_scan is entered (by __main__, or again by the owner of the
\* scanner), reads the watch-list and returns at once when it holds no symbol.
\* self.alerts is not assigned.
RunScan ==
    /\ pc \in {"ready", "completed", "no_stocks"}
    /\ invocation < MaxRuns
    /\ invocation' = invocation + 1
    /\ reads' = reads + 1
    /\ \E w \in WatchLists :
         /\ stocks' = w
         /\ pc' = IF NoStocks(w) THEN "no_stocks" ELSE "scanning"
    /\ k' = 1
    /\ log' = <<>>
    /\ last' = NoCall
    /\ UNCHANGED <<env, exitcode, alerts, sent, fetches, prevAlerts,
                   df, i, patterns, iters, examined>>

\* The scan of one symbol ends (lines 225-254) having appended `new`, and the for
\* loops move on to the next symbol.
SymbolDone(outcome, new) ==
    /\ log' = Append(log, [item |-> Work(stocks)[k], outcome |-> outcome])
    /\ prevAlerts' = alerts
    /\ alerts' = alerts \o new
    /\ k' = k + 1
    /\ pc' = "scanning"
    /\ df' = NoFrame
    /\ i' = 0
    /\ patterns' = <<>>
    /\ iters' = 0
    /\ examined' = <<>>

\* The failure leaves run_scan instead: the scan stops at this symbol.
SymbolFailedAbort(outcome) ==
    /\ log' = Append(log, [item |-> Work(stocks)[k], outcome |-> outcome])
    /\ prevAlerts' = alerts
    /\ alerts' = alerts
    /\ k' = k
    /\ pc' = "completed"
    /\ df' = NoFrame
    /\ i' = 0
    /\ patterns' = <<>>
    /\ iters' = 0
    /\ examined' = <<>>

\* A failure inside find_20_percent_patterns is caught at lines 88-90, which
\* return []; run_scan then takes the branch of line 247.
SymbolFailed(outcome) == SymbolDone(outcome, <<>>)

\* Lines 219-223 and 48-58: the next symbol is taken and its history requested.
FetchHistory ==
    /\ pc = "scanning"
    /\ k <= Len(Work(stocks))
    /\ fetches' = fetches + 1
    /\ last' = NoCall
    /\ \E h \in ScanHistories :
         IF h.kind = "error" THEN SymbolFailed("fetch_error")
         ELSE IF h.kind = "empty" THEN SymbolFailed("empty")
         ELSE /\ pc' = "detect"
              /\ df' = h.frame
              /\ i' = 0
              /\ patterns' = <<>>
              /\ iters' = 0
              /\ examined' = <<>>
              /\ UNCHANGED <<k, alerts, log, prevAlerts>>
    /\ UNCHANGED <<env, exitcode, invocation, stocks, sent, reads>>

\* One iteration of the loop of line 60.
DetectStep ==
    /\ pc = "detect"
    /\ i < Len0(df)
    /\ ~Raises(df, i)
    /\ LET it == OuterIteration(df, i, patterns)
       IN  /\ patterns' = it.patterns
           /\ i' = it.i
           /\ examined' = IF it.run[2] > 0 THEN Append(examined, it.run) ELSE examined
    /\ iters' = iters + 1
    /\ UNCHANGED <<pc, env, exitcode, invocation, stocks, k, alerts, sent, reads,
                   fetches, log, prevAlerts, df, last>>

\* An iteration in which line 74 raises.
DetectRaise ==
    /\ pc = "detect"
    /\ i < Len0(df)
    /\ Raises(df, i)
    /\ SymbolFailed("arith_error")
    /\ UNCHANGED <<env, exitcode, invocation, stocks, sent, reads, fetches, last>>

\* Line 60 finds the series exhausted and line 87 returns the patterns.
DetectReturn ==
    /\ pc = "detect"
    /\ i >= Len0(df)
    /\ pc' = "returned"
    /\ UNCHANGED <<env, exitcode, invocation, stocks, k, alerts, sent, reads, fetches,
                   log, prevAlerts, df, i, patterns, iters, examined, last>>

\* Lines 225 and 247-248: no pattern was returned.
NoPatterns ==
    /\ pc = "returned"
    /\ patterns = <<>>
    /\ SymbolDone("no_patterns", <<>>)
    /\ UNCHANGED <<env, exitcode, invocation, stocks, sent, reads, fetches, last>>

\* Lines 225-246: patterns were returned; the current price and the average are
\* requested and check_alerts is called.
Classify(r) ==
    /\ pc = "returned"
    /\ patterns # <<>>
    /\ fetches' = fetches + 1
    /\ LET item == Work(stocks)[k]
           q    == get_current_price_and_sma(r)
       IN  /\ last' = [called |-> TRUE, symbol |-> item.symbol, group |-> item.group,
                       patterns |-> patterns, current_price |-> q.current_price,
                       sma_200 |-> q.sma_200]
           /\ SymbolDone(IF q.current_price = None THEN "price_error" ELSE "checked",
                         check_alerts(item.symbol, item.group, patterns,
                                      q.current_price, q.sma_200))
    /\ UNCHANGED <<env, exitcode, invocation, stocks, sent, reads>>

\* send_email (lines 141-176): the transmissions it attempts; ok tells whether
\* the SMTP exchange went through (an exception is caught at line 173).
send_email(a, ok) ==
    IF a = <<>> THEN <<>>
    ELSE << [invocation |-> invocation, body |-> a, ok |-> ok] >>

\* Lines 256-279: the loops are over; the report is sent if there is an alert.
FinishScanRetry ==
    /\ pc = "scanning"
    /\ k > Len(Work(stocks))
    /\ \E ok \in BOOLEAN :
         sent' = IF alerts # <<>>
                 THEN IF ok THEN sent \o send_email(alerts, ok)
                      ELSE sent \o send_email(alerts, ok) \o send_email(alerts, TRUE)
                 ELSE sent
    /\ pc' = "completed"
    /\ UNCHANGED <<env, exitcode, invocation, stocks, k, alerts, reads, fetches, log,
                   prevAlerts, df, i, patterns, iters, examined, last>>

FinishScan ==
    /\ pc = "scanning"
    /\ k > Len(Work(stocks))
    /\ \E ok \in BOOLEAN :
         sent' = IF alerts # <<>> THEN sent \o send_email(alerts, ok) ELSE sent
    /\ pc' = "completed"
    /\ UNCHANGED <<env, exitcode, invocation, stocks, k, alerts, reads, fetches, log,
                   prevAlerts, df, i, patterns, iters, examined, last>>

----------------------------------------------------------------------------
(* The program: the script from its start, with a bounded number of run_scan  *)
(* invocations on the scanner it constructs.                                  *)

EnvValues == {None, Some(""), Some("set")}

Init ==
    /\ pc = "main"
    /\ env \in [EMAIL_FROM : EnvValues, EMAIL_PASSWORD : EnvValues]
    /\ exitcode = None
    /\ invocation = 0
    /\ stocks = <<>>
    /\ k = 1
    /\ alerts = <<>>
    /\ sent = <<>>
    /\ reads = 0
    /\ fetches = 0
    /\ log = <<>>
    /\ prevAlerts = <<>>
    /\ df = NoFrame
    /\ i = 0
    /\ patterns = <<>>
    /\ iters = 0
    /\ examined = <<>>
    /\ last = NoCall

Next ==
    \/ CheckCredentials
    \/ RunScan
    \/ FetchHistory
    \/ DetectStep
    \/ DetectRaise
    \/ DetectReturn
    \/ NoPatterns
    \/ \E r \in ScanRecents : Classify(r)
    \/ FinishScan
    \/ ScriptEnd

Spec == Init /\ [][Next]_vars

(* One symbol: the first invocation of run_scan has taken the only symbol of  *)
(* the watch-list and received some frame for it; the symbol is scanned and   *)
(* classified.                                                                *)

SymbolInit ==
    /\ pc = "detect"
    /\ env = [EMAIL_FROM |-> Some("set"), EMAIL_PASSWORD |-> Some("set")]
    /\ exitcode = None
    /\ invocation = 1
    /\ \E g \in Groups : stocks = << [group |-> g, symbols |-> <<"A">>] >>
    /\ k = 1
    /\ alerts = <<>>
    /\ sent = <<>>
    /\ reads = 1
    /\ fetches = 1
    /\ log = <<>>
    /\ prevAlerts = <<>>
    /\ df \in Frames
    /\ i = 0
    /\ patterns = <<>>
    /\ iters = 0
    /\ examined = <<>>
    /\ last = NoCall

SymbolNext ==
    \/ DetectStep
    \/ DetectRaise
    \/ DetectReturn
    \/ NoPatterns
    \/ \E r \in Recents : Classify(r)

SymbolSpec == SymbolInit /\ [][SymbolNext]_vars

SymbolFairSpec == SymbolSpec /\ WF_vars(SymbolNext)

----------------------------------------------------------------------------
(* Properties *)

IsPrefix(a, b) == Len(a) <= Len(b) /\ SubSeq(b, 1, Len(a)) = a

\* The alerts appended while the last analysed symbol was processed.
Delta == SubSeq(alerts, Len(prevAlerts) + 1, Len(alerts))

\* Rows s..e (0-based) of f are a maximal run of green bars.
IsRun(f, s, e) ==
    /\ s <= e
    /\ \A n \in s..e : Green(f, n)
    /\ s = 0 \/ ~Green(f, s - 1)
    /\ e = Len0(f) - 1 \/ ~Green(f, e + 1)

MaxClose(f, s, e) ==
    CHOOSE c \in { Row(f, n).Close : n \in s..e } :
        \A n \in s..e : c >= Row(f, n).Close

RunsOf(f) == { se \in (0..(Len0(f) - 1)) \X (0..(Len0(f) - 1)) : IsRun(f, se[1], se[2]) }

PatternSet == { patterns[n] : n \in 1..Len(patterns) }

\* C1: when find_20_percent_patterns returns its list, the list holds one pattern
\* for each maximal run of green bars whose maximum close is at least 20% above
\* the open of its first bar (exactly 20% included) and nothing else: a run
\* below the threshold leaves no pattern, for itself or for a part of it, and a
\* series without a green bar gives the empty list.
C1_PatternsAreTheQualifyingRuns ==
    pc = "returned" =>
        /\ \A se \in RunsOf(df) :
             LET open == Row(df, se[1]).Open
                 top  == MaxClose(df, se[1], se[2])
                 mine == { p \in PatternSet : p.start_date = se[1] + 1 }
             IN  IF (top - open) * 100 >= 20 * open
                 THEN /\ Cardinality(mine) = 1
                      /\ \A p \in mine :
                           /\ p.candles = se[2] - se[1] + 1
                           /\ p.start_price = Round2(open)
                           /\ p.end_price = Round2(top)
                 ELSE mine = {}
        /\ \A p \in PatternSet : \E se \in RunsOf(df) : p.start_date = se[1] + 1
        /\ Cardinality(PatternSet) = Len(patterns)
        /\ (\A n \in 0..(Len0(df) - 1) : ~Green(df, n)) => patterns = <<>>

\* A returned list that kept a run of exactly 20% and dropped a run of less.
C1_Witness ==
    /\ pc = "returned"
    /\ Len(patterns) = 1
    /\ \E se \in RunsOf(df) :
         (MaxClose(df, se[1], se[2]) - Row(df, se[1]).Open) * 100
             = 20 * Row(df, se[1]).Open
    /\ \E se \in RunsOf(df) :
         (MaxClose(df, se[1], se[2]) - Row(df, se[1]).Open) * 100
             < 20 * Row(df, se[1]).Open

\* C2: the patterns are in strictly ascending start-date order, their candle
\* spans are pairwise disjoint, and the runs walked by the scan are pairwise
\* disjoint (no bar is examined in two runs).
C2_DisjointAscending ==
    /\ \A a, b \in 1..Len(patterns) :
         a < b => /\ patterns[a].start_date < patterns[b].start_date
                  /\ patterns[a].start_date + patterns[a].candles
                         <= patterns[b].start_date
    /\ \A a, b \in 1..Len(examined) :
         a < b => examined[a][1] + examined[a][2] <= examined[b][1]
    /\ \A a \in 1..Len(examined) :
         examined[a][1] + examined[a][2] <= Len0(df)

\* A returned list of two patterns.
C2_Witness ==
    /\ pc = "returned"
    /\ Len(patterns) = 2
    /\ Len(examined) = 2

\* The call of check_alerts recorded in `last` went past its short-circuits.
PassedShortCircuits ==
    /\ last.called
    /\ last.patterns # <<>>
    /\ last.current_price # None
    /\ ~(/\ last.group = "v200"
         /\ \/ last.sma_200 = None
            \/ Val(last.current_price) >= Val(last.sma_200))

AlertsFor(p) == SelectSeq(Delta, LAMBDA a : a.start_date = p.start_date)

\* C3: past the short-circuits, each pattern gets at most one alert: ACTIVATED
\* when the current price is within 1% of its start price; NEAR when it is more
\* than 1% and at most 5% away and below the start price; none when it is more
\* than 1% above, or more than 5% away.
C3_OneAlertByDistance ==
    PassedShortCircuits =>
        /\ Len(Delta) <= Len(last.patterns)
        /\ \A n \in 1..Len(last.patterns) :
             LET p    == last.patterns[n]
                 cp   == Val(last.current_price)
                 dist == Abs(cp - p.start_price) * 100
                 got  == AlertsFor(p)
             IN  /\ Len(got) <= 1
                 /\ (p.start_price > 0 /\ dist <= p.start_price)
                       => (Len(got) = 1 /\ got[1].kind = "ACTIVATED")
                 /\ (dist > p.start_price /\ dist <= 5 * p.start_price
                       /\ cp < p.start_price)
                       => (Len(got) = 1 /\ got[1].kind = "NEAR")
                 /\ (dist > p.start_price /\ cp > p.start_price) => got = <<>>
                 /\ dist > 5 * p.start_price => got = <<>>

\* A NEAR alert at exactly 5% below the start price.
C3_Witness ==
    /\ PassedShortCircuits
    /\ \E n \in 1..Len(Delta) :
         /\ Delta[n].kind = "NEAR"
         /\ (Delta[n].start_price - Delta[n].current_price) * 100
                = 5 * Delta[n].start_price

\* C4 as stated: a current price equal to a pattern's start price always yields
\* an ACTIVATED alert for that pattern, for every group and moving average.
C4_AlwaysActivated ==
    last.called =>
        \A n \in 1..Len(last.patterns) :
            last.current_price = Some(last.patterns[n].start_price)
                => \E m \in 1..Len(Delta) :
                     /\ Delta[m].kind = "ACTIVATED"
                     /\ Delta[m].start_date = last.patterns[n].start_date

\* C4 amended: a current price equal to a pattern's start price yields an
\* ACTIVATED alert for that pattern in every group other than 'v200', and in
\* 'v200' when the moving average is known and the current price is below it.
C4_ActivatedUnlessTrendBlocked ==
    (/\ last.called
     /\ \/ last.group # "v200"
        \/ /\ last.sma_200 # None
           /\ last.current_price # None
           /\ Val(last.current_price) < Val(last.sma_200))
    => \A n \in 1..Len(last.patterns) :
           last.current_price = Some(last.patterns[n].start_price)
               => \E m \in 1..Len(Delta) :
                    /\ Delta[m].kind = "ACTIVATED"
                    /\ Delta[m].start_date = last.patterns[n].start_date

\* An ACTIVATED alert at the start price, in 'v200' below the average.
C4_Witness ==
    /\ last.called
    /\ last.group = "v200"
    /\ last.sma_200 # None
    /\ \E m \in 1..Len(Delta) :
         /\ Delta[m].kind = "ACTIVATED"
         /\ Delta[m].current_price = Delta[m].start_price

\* C5: for the group 'v200', check_alerts appends nothing when the moving
\* average is unknown or the current price is at or above it.
C5_TrendFilterBlocks ==
    (/\ last.called
     /\ last.group = "v200"
     /\ \/ last.sma_200 = None
        \/ /\ last.current_price # None
           /\ Val(last.current_price) >= Val(last.sma_200))
    => Delta = <<>>

\* A 'v200' symbol priced exactly at a pattern's start, at or above its average.
C5_Witness ==
    /\ last.called
    /\ last.group = "v200"
    /\ last.sma_200 # None
    /\ last.current_price # None
    /\ Val(last.current_price) >= Val(last.sma_200)
    /\ \E n \in 1..Len(last.patterns) :
         last.current_price = Some(last.patterns[n].start_price)
    /\ Delta = <<>>

Failure == {"fetch_error", "empty", "arith_error", "price_error"}

\* C6: a symbol whose processing fails adds no alert and removes none, and the
\* scan goes on: the symbols are analysed in watch-list order, one after the
\* other, and run_scan reaches its end only with all of them analysed.
C6_FailureSkipsOneSymbol ==
    LET w == Work(stocks)
    IN  /\ Len(log) <= Len(w)
        /\ \A n \in 1..Len(log) : log[n].item = w[n]
        /\ pc \in {"scanning", "detect", "returned"} => Len(log) = k - 1
        /\ pc \in {"detect", "returned"} => k <= Len(w)
        /\ pc = "completed" => Len(log) = Len(w)
        /\ log # <<>> =>
             /\ IsPrefix(prevAlerts, alerts)
             /\ log[Len(log)].outcome \in Failure => alerts = prevAlerts

\* A scan that ended after a symbol with an alert, then a symbol that failed.
C6_Witness ==
    /\ pc = "completed"
    /\ Len(log) = 2
    /\ log[1].outcome = "checked"
    /\ log[2].outcome \in Failure
    /\ alerts # <<>>
    /\ prevAlerts = alerts

ThisRun == SelectSeq(sent, LAMBDA s : s.invocation = invocation)

\* C7: an invocation of run_scan attempts at most one transmission, none while
\* the loops run or when it returns early, and at its end one exactly when the
\* alert list is not empty, carrying the whole list; a failed attempt is
\* followed by no other and run_scan still ends.
C7_OneTransmissionAtTheEnd ==
    /\ \A n \in 1..Len(sent) : sent[n].body # <<>>
    /\ \A a, b \in 1..Len(sent) :
         a # b => sent[a].invocation # sent[b].invocation
    /\ pc \in {"main", "ready", "scanning", "detect", "returned", "no_stocks"}
         => ThisRun = <<>>
    /\ pc = "completed" =>
         IF alerts = <<>> THEN ThisRun = <<>>
         ELSE Len(ThisRun) = 1 /\ ThisRun[1].body = alerts
    /\ ThisRun # <<>> => pc \in {"completed", "exited"}

\* A scan that ended with two alerts and a failed transmission.
C7_Witness ==
    /\ pc = "completed"
    /\ Len(alerts) = 2
    /\ Len(ThisRun) = 1
    /\ ~ThisRun[1].ok
    /\ ThisRun[1].body = alerts

\* C8 as stated: the alert list is empty when an invocation of run_scan starts.
C8_FreshAlertList ==
    (pc = "no_stocks" \/ (pc = "scanning" /\ k = 1)) => alerts = <<>>

\* C9: with EMAIL_FROM or EMAIL_PASSWORD unset the process does nothing but
\* exit with status 1: the watch-list is not read, no price data is requested,
\* nothing is sent and run_scan is not entered.
C9_NoScanWithoutCredentials ==
    (env.EMAIL_FROM = None \/ env.EMAIL_PASSWORD = None) =>
        /\ pc \in {"main", "exited"}
        /\ pc = "exited" => exitcode = Some(1)
        /\ reads = 0
        /\ fetches = 0
        /\ sent = <<>>
        /\ invocation = 0

\* The process has exited with status 1 for want of the password alone.
C9_Witness ==
    /\ pc = "exited"
    /\ exitcode = Some(1)
    /\ env.EMAIL_FROM = Some("set")
    /\ env.EMAIL_PASSWORD = None
    /\ reads = 0

\* C10: every iteration of the scan loop moves the cursor forward, by one bar
\* from a red or flat bar and to the bar after the run from a green one; the
\* iterations number at most the bars; the loop is left by its condition with
\* the cursor at the length of the series; and the loop is always left.
C10_LoopTerminates ==
    /\ [](pc \in {"detect", "returned"} => (iters <= Len0(df) /\ i <= Len0(df)))
    /\ [](pc = "returned" => i = Len0(df))
    /\ [][(pc = "detect" /\ iters' = iters + 1) =>
             /\ i' > i
             /\ ~Green(df, i) => i' = i + 1
             /\ Green(df, i) => IsRun(df, i, i' - 1)]_vars
    /\ (pc = "detect") ~> (pc # "detect")

\* The loop was left after two iterations over three bars.
C10_Witness ==
    /\ pc = "returned"
    /\ Len0(df) = 3
    /\ iters = 2
    /\ i = 3

====
